---- MODULE Spec2Model ----
(***************************************************************************)
(* tools/loadgen/plot_latency.py: parse the text report of a load test     *)
(* (parse_hey_output), draw the latency plot (create_latency_plot), and    *)
(* the command-line driver (main).                                         *)
(*                                                                         *)
(* A text is a sequence of symbols.  A symbol is one character ("5", ".",  *)
(* "%", " ", "\n", "a" for a letter) or one of the literal words of the    *)
(* regular expressions, taken whole ("Latency distribution:" ...).         *)
(* A float is [num, den] with den a power of ten, in lowest such terms, so *)
(* that float("5") = float("5.0").                                         *)
(***************************************************************************)
EXTENDS Integers, Sequences, FiniteSets, TLC

\* Largest number of lines of an input file.
MaxLines == 4

----------------------------------------------------------------------------
\* The alphabet

LD == "Latency distribution:"
RS == "Requests/sec:"
TOT == "Total:"
REQ == "requests"
INW == "in"
NL == "\n"
SP == " "

\* \d of the regular expressions
Digit == {"0", "1", "2", "3", "4", "5", "6", "7", "8", "9"}

\* [\d.] of the regular expressions
NumChar == Digit \cup {"."}

\* \s of the regular expressions, and the separators of str.split()
Space == {SP, NL}

\* The lines an input file is made of.
LineKinds ==
  { <<LD>>,
    <<RS, SP, "1", ".", "5">>,
    <<RS>>,
    <<"9", "%", SP, "2">>,
    <<"5", "%", SP, "1">>,
    <<"5", ".", "0", "%", SP, "3">>,
    <<"5", "%", SP, "a">>,
    <<"a", "%", SP, "1">>,
    <<TOT, SP, "7", SP, REQ>>,
    <<INW, SP, "2", ".", "5", "s">>,
    <<INW, SP, "1", ".", ".", "s">> }

RECURSIVE JoinLines(_)
\* The text of a file of the given lines: the lines separated by "\n".
JoinLines(ls) ==
  IF ls = <<>> THEN <<>>
  ELSE IF Len(ls) = 1 THEN ls[1]
  ELSE ls[1] \o <<NL>> \o JoinLines(Tail(ls))

----------------------------------------------------------------------------
\* Numbers

DigitVal(c) ==
  CASE c = "0" -> 0 [] c = "1" -> 1 [] c = "2" -> 2 [] c = "3" -> 3
    [] c = "4" -> 4 [] c = "5" -> 5 [] c = "6" -> 6 [] c = "7" -> 7
    [] c = "8" -> 8 [] c = "9" -> 9

RECURSIVE IntOf(_)
\* int(s) of a string of digits ("" counts 0, used for the digits around a dot)
IntOf(s) ==
  IF s = <<>> THEN 0
  ELSE 10 * IntOf(SubSeq(s, 1, Len(s) - 1)) + DigitVal(s[Len(s)])

RECURSIVE Pow10(_)
Pow10(n) == IF n = 0 THEN 1 ELSE 10 * Pow10(n - 1)

RECURSIVE Norm(_, _)
\* num/den with den a power of ten, in lowest such terms
Norm(n, d) ==
  IF d > 1 /\ n % 10 = 0 THEN Norm(n \div 10, d \div 10)
  ELSE [num |-> n, den |-> d]

\* float(s) does not raise ValueError: digits with at most one dot, and at
\* least one digit (signs, exponents, "inf", "nan" are not in the alphabet).
FloatOk(s) ==
  /\ \A i \in 1..Len(s) : s[i] \in NumChar
  /\ Cardinality({i \in 1..Len(s) : s[i] = "."}) <= 1
  /\ \E i \in 1..Len(s) : s[i] \in Digit

\* float(s), for s with FloatOk(s)
FloatOf(s) ==
  LET dots == {i \in 1..Len(s) : s[i] = "."}
      p    == IF dots = {} THEN Len(s) + 1 ELSE CHOOSE i \in dots : TRUE
      ip   == SubSeq(s, 1, p - 1)
      fp   == SubSeq(s, p + 1, Len(s))
  IN  Norm(IntOf(ip \o fp), Pow10(Len(fp)))

\* the 0 of `... if m else 0` (0 == 0.0 in Python)
Zero == [num |-> 0, den |-> 1]

----------------------------------------------------------------------------
\* Strings

\* The end of the longest run of symbols of cls that starts at i: the
\* position after its last symbol (i when the run is empty).
RunEnd(t, i, cls) ==
  CHOOSE j \in i..(Len(t) + 1) :
    /\ \A k \in i..(j - 1) : t[k] \in cls
    /\ (j = Len(t) + 1 \/ t[j] \notin cls)

RECURSIVE SplitOn(_, _)
\* str.split(sep) for the separators of the set seps: the pieces between
\* the separators, the empty ones included.
SplitOn(t, seps) ==
  LET hits == {i \in 1..Len(t) : t[i] \in seps}
  IN  IF hits = {} THEN <<t>>
      ELSE LET i == CHOOSE h \in hits : \A g \in hits : h <= g
           IN  <<SubSeq(t, 1, i - 1)>> \o SplitOn(SubSeq(t, i + 1, Len(t)), seps)

\* line.strip().split(): the non-empty pieces between runs of whitespace
Words(line) == SelectSeq(SplitOn(line, Space), LAMBDA w : w # <<>>)

RECURSIVE RStrip(_, _)
\* s.rstrip(c)
RStrip(s, c) ==
  IF s # <<>> /\ s[Len(s)] = c THEN RStrip(SubSeq(s, 1, Len(s) - 1), c) ELSE s

\* c in s
Contains(s, c) == \E i \in 1..Len(s) : s[i] = c

----------------------------------------------------------------------------
\* The regular expressions.  A search gives <<>> (no match) or <<group 1>>.

\* SearchSection with an optional closing header: r'...:(.*?)(?:Requests/sec:|$)'
SearchSectionOpenEnded(content) ==
  LET starts == {i \in 1..Len(content) : content[i] = LD}
  IN  IF starts = {} THEN <<>>
      ELSE LET i == CHOOSE a \in starts : \A b \in starts : a <= b
               ends == {j \in (i + 1)..(Len(content) + 1) :
                          j = Len(content) + 1 \/ content[j] = RS}
               j == CHOOSE a \in ends : \A b \in ends : a <= b
           IN  <<SubSeq(content, i + 1, j - 1)>>

\* SearchSection with a greedy group: r'...:(.*)Requests/sec:'
SearchSectionGreedy(content) ==
  LET starts == {i \in 1..Len(content) :
                   /\ content[i] = LD
                   /\ \E j \in (i + 1)..Len(content) : content[j] = RS}
  IN  IF starts = {} THEN <<>>
      ELSE LET i == CHOOSE a \in starts : \A b \in starts : a <= b
               ends == {j \in (i + 1)..Len(content) : content[j] = RS}
               j == CHOOSE a \in ends : \A b \in ends : a >= b
           IN  <<SubSeq(content, i + 1, j - 1)>>

\* re.search(r'Latency distribution:(.*?)Requests/sec:', content, re.DOTALL)
SearchSection(content) ==
  LET starts == {i \in 1..Len(content) :
                   /\ content[i] = LD
                   /\ \E j \in (i + 1)..Len(content) : content[j] = RS}
  IN  IF starts = {} THEN <<>>
      ELSE LET i == CHOOSE a \in starts : \A b \in starts : a <= b
               ends == {j \in (i + 1)..Len(content) : content[j] = RS}
               j == CHOOSE a \in ends : \A b \in ends : a <= b
           IN  <<SubSeq(content, i + 1, j - 1)>>

\* r'Total:\s+(\d+)\s+requests' matched at position i: <<>> or <<group 1>>
MatchTotalAt(t, i) ==
  LET a == RunEnd(t, i + 1, Space)
      b == RunEnd(t, a, Digit)
      c == RunEnd(t, b, Space)
  IN  IF /\ t[i] = TOT /\ a > i + 1 /\ b > a /\ c > b
         /\ c <= Len(t) /\ t[c] = REQ
      THEN <<SubSeq(t, a, b - 1)>> ELSE <<>>

\* r'in\s+([\d.]+)s' matched at position i
MatchDurationAt(t, i) ==
  LET a == RunEnd(t, i + 1, Space)
      b == RunEnd(t, a, NumChar)
  IN  IF /\ t[i] = INW /\ a > i + 1 /\ b > a
         /\ b <= Len(t) /\ t[b] = "s"
      THEN <<SubSeq(t, a, b - 1)>> ELSE <<>>

\* r'Requests/sec:\s+([\d.]+)' matched at position i
MatchRpsAt(t, i) ==
  LET a == RunEnd(t, i + 1, Space)
      b == RunEnd(t, a, NumChar)
  IN  IF t[i] = RS /\ a > i + 1 /\ b > a
      THEN <<SubSeq(t, a, b - 1)>> ELSE <<>>

\* re.search(r'Total:\s+(\d+)\s+requests', content): the leftmost match
SearchTotal(content) ==
  LET hits == {i \in 1..Len(content) : MatchTotalAt(content, i) # <<>>}
  IN  IF hits = {} THEN <<>>
      ELSE MatchTotalAt(content, CHOOSE a \in hits : \A b \in hits : a <= b)

\* re.search(r'in\s+([\d.]+)s', content)
SearchDuration(content) ==
  LET hits == {i \in 1..Len(content) : MatchDurationAt(content, i) # <<>>}
  IN  IF hits = {} THEN <<>>
      ELSE MatchDurationAt(content, CHOOSE a \in hits : \A b \in hits : a <= b)

\* re.search(r'Requests/sec:\s+([\d.]+)', content)
SearchRps(content) ==
  LET hits == {i \in 1..Len(content) : MatchRpsAt(content, i) # <<>>}
  IN  IF hits = {} THEN <<>>
      ELSE MatchRpsAt(content, CHOOSE a \in hits : \A b \in hits : a <= b)

----------------------------------------------------------------------------
\* parse_hey_output: the percentiles

\* A dict is the sequence of its items [k, v] in insertion order.

\* DictSet as d.setdefault(k, v): a key already present keeps its value.
DictSetFirstWins(d, k, v) ==
  IF \E i \in 1..Len(d) : d[i].k = k THEN d
  ELSE Append(d, [k |-> k, v |-> v])

\* d[k] = v: a key already present keeps its place and takes the new value.
DictSet(d, k, v) ==
  IF \E i \in 1..Len(d) : d[i].k = k
  THEN [i \in 1..Len(d) |-> IF d[i].k = k THEN [k |-> k, v |-> v] ELSE d[i]]
  ELSE Append(d, [k |-> k, v |-> v])

\* PercentileLine without the try: a line that does not convert ends the
\* parse with nothing.
PercentileLineAllOrNothing(d, line) ==
  LET parts == Words(line)
  IN  IF Contains(line, "%") /\ Len(parts) >= 2
      THEN LET percentile == RStrip(parts[1], "%")
           IN  IF FloatOk(parts[2]) /\ FloatOk(percentile)
               THEN DictSet(d, FloatOf(percentile), FloatOf(parts[2]))
               ELSE <<>>
      ELSE d

\* One turn of `for line in latency_text.split('\n')`, on the dict d.
\* float(parts[1]) is taken first, then float(percentile); a ValueError of
\* either is caught and the line is skipped.
PercentileLine(d, line) ==
  LET parts == Words(line)
  IN  IF Contains(line, "%") /\ Len(parts) >= 2
      THEN LET percentile == RStrip(parts[1], "%")
           IN  IF FloatOk(parts[2]) /\ FloatOk(percentile)
               THEN DictSet(d, FloatOf(percentile), FloatOf(parts[2]))
               ELSE d
      ELSE d

RECURSIVE ParseLines(_, _)
\* The loop over the lines, from the dict d.
ParseLines(lines, d) ==
  IF lines = <<>> THEN d
  ELSE ParseLines(Tail(lines), PercentileLine(d, lines[1]))

\* percentiles = {}; for line in latency_text.split('\n'): ...
ParsePercentiles(text) == ParseLines(SplitOn(text, {NL}), <<>>)

----------------------------------------------------------------------------
\* parse_hey_output: the summary

\* int(total_requests.group(1)) if total_requests else 0
TotalRequests(content) ==
  LET m == SearchTotal(content) IN IF m # <<>> THEN IntOf(m[1]) ELSE 0

\* float(duration.group(1)) raises ValueError
DurationRaises(content) ==
  LET m == SearchDuration(content) IN m # <<>> /\ ~FloatOk(m[1])

\* Duration with a sentinel for the absent pattern: `... if duration else -1`
DurationSentinel(content) ==
  LET m == SearchDuration(content)
  IN  IF m # <<>> THEN FloatOf(m[1]) ELSE [num |-> -1, den |-> 1]

\* float(duration.group(1)) if duration else 0
Duration(content) ==
  LET m == SearchDuration(content) IN IF m # <<>> THEN FloatOf(m[1]) ELSE Zero

\* float(req_per_sec.group(1)) raises ValueError
RpsRaises(content) ==
  LET m == SearchRps(content) IN m # <<>> /\ ~FloatOk(m[1])

\* float(req_per_sec.group(1)) if req_per_sec else 0
RequestsPerSec(content) ==
  LET m == SearchRps(content) IN IF m # <<>> THEN FloatOf(m[1]) ELSE Zero

\* The dict `stats` of a text whose summary converts.
Stats(content, percentiles) ==
  [total_requests   |-> TotalRequests(content),
   duration         |-> Duration(content),
   requests_per_sec |-> RequestsPerSec(content),
   percentiles      |-> percentiles]

----------------------------------------------------------------------------
\* create_latency_plot and main

\* MissingArgument off by one: len(sys.argv) < 1
MissingArgumentOffByOne(n) == n < 1

\* len(sys.argv) < 2
MissingArgument(n) == n < 2

\* NoData without the test of the percentiles: `not stats`
NoDataNoneOnly(st) == st = <<>>

\* `not stats or not stats['percentiles']`; stats is <<>> (None) or <<dict>>
NoData(st) == st = <<>> \/ st[1].percentiles = <<>>

\* The points handed to ax1.plot: list(percentiles.keys()) against
\* list(percentiles.values()), in the order of the dict.
PlotPoints(percentiles) ==
  [i \in 1..Len(percentiles) |-> <<percentiles[i].k, percentiles[i].v>>]

\* The messages printed
MsgUsage == "Usage: python3 plot_latency.py <hey_output_file> [output_image]"
MsgNoSection == "Error: Could not find latency distribution in output"
MsgFailed == "Failed to parse hey output"
MsgNoData == "Error: No latency data to plot"
MsgSaved == "Latency plot saved to: output_file"
MsgReadError == "Error: [Errno 2] No such file or directory"
MsgSaveError == "Error: [Errno 13] Permission denied"
MsgValueError == "Error: could not convert string to float"

VARIABLES
  argc,          \* len(sys.argv)
  pc,            \* where the run is
  content,       \* the text read from the input file
  latency_text,  \* <<>> or <<group 1 of the section>>
  percentiles,   \* the dict of parse_hey_output
  stats,         \* <<>> (None, or not yet returned) or <<the dict returned>>
  plotted,       \* the points handed to ax1.plot
  file_written,  \* the output image has been written
  exit_code,     \* -1 while running, then the exit status
  out,           \* the lines printed
  calls          \* what has been entered: "open", "parse", "render"

vars == <<argc, pc, content, latency_text, percentiles, stats, plotted,
          file_written, exit_code, out, calls>>

Init ==
  /\ argc \in 1..3
  /\ pc = "main"
  /\ content = <<>>
  /\ latency_text = <<>>
  /\ percentiles = <<>>
  /\ stats = <<>>
  /\ plotted = <<>>
  /\ file_written = FALSE
  /\ exit_code = -1
  /\ out = <<>>
  /\ calls = {}

\* main, no input path: print the usage, sys.exit(1)
Usage ==
  /\ pc = "main" /\ MissingArgument(argc)
  /\ out' = Append(out, MsgUsage)
  /\ exit_code' = 1
  /\ pc' = "done"
  /\ UNCHANGED <<argc, content, latency_text, percentiles, stats, plotted,
                 file_written, calls>>

\* main calls parse_hey_output, which opens and reads the file
ReadFile ==
  /\ pc = "main" /\ ~MissingArgument(argc)
  /\ \E n \in 0..MaxLines : \E ls \in [1..n -> LineKinds] :
       content' = JoinLines(ls)
  /\ calls' = calls \cup {"parse", "open"}
  /\ pc' = "section"
  /\ UNCHANGED <<argc, latency_text, percentiles, stats, plotted,
                 file_written, exit_code, out>>

\* open() or read() raises (no such file, not readable): caught in main
ReadFileRaises ==
  /\ pc = "main" /\ ~MissingArgument(argc)
  /\ calls' = calls \cup {"parse", "open"}
  /\ out' = Append(out, MsgReadError)
  /\ exit_code' = 1
  /\ pc' = "done"
  /\ UNCHANGED <<argc, content, latency_text, percentiles, stats, plotted,
                 file_written>>

\* the section is found
FindSection ==
  /\ pc = "section" /\ SearchSection(content) # <<>>
  /\ latency_text' = SearchSection(content)
  /\ pc' = "percentiles"
  /\ UNCHANGED <<argc, content, percentiles, stats, plotted, file_written,
                 exit_code, out, calls>>

\* the section is not found: parse_hey_output prints and returns None, main
\* prints and exits 1 (SystemExit is not an Exception, it is not caught)
NoSection ==
  /\ pc = "section" /\ SearchSection(content) = <<>>
  /\ out' = out \o <<MsgNoSection, MsgFailed>>
  /\ exit_code' = 1
  /\ pc' = "done"
  /\ UNCHANGED <<argc, content, latency_text, percentiles, stats, plotted,
                 file_written, calls>>

\* the loop over the lines of the section
Percentiles ==
  /\ pc = "percentiles"
  /\ percentiles' = ParsePercentiles(latency_text[1])
  /\ pc' = "summary"
  /\ UNCHANGED <<argc, content, latency_text, stats, plotted, file_written,
                 exit_code, out, calls>>

\* the summary converts: parse_hey_output returns stats
Summary ==
  /\ pc = "summary" /\ ~DurationRaises(content) /\ ~RpsRaises(content)
  /\ stats' = <<Stats(content, percentiles)>>
  /\ pc' = "plot"
  /\ UNCHANGED <<argc, content, latency_text, percentiles, plotted,
                 file_written, exit_code, out, calls>>

\* a float() of the summary raises ValueError: caught in main
SummaryRaises ==
  /\ pc = "summary" /\ (DurationRaises(content) \/ RpsRaises(content))
  /\ out' = Append(out, MsgValueError)
  /\ exit_code' = 1
  /\ pc' = "done"
  /\ UNCHANGED <<argc, content, latency_text, percentiles, stats, plotted,
                 file_written, calls>>

\* create_latency_plot without data: prints and returns; main ends, status 0
PlotNoData ==
  /\ pc = "plot" /\ NoData(stats)
  /\ calls' = calls \cup {"render"}
  /\ out' = Append(out, MsgNoData)
  /\ exit_code' = 0
  /\ pc' = "done"
  /\ UNCHANGED <<argc, content, latency_text, percentiles, stats, plotted,
                 file_written>>

\* create_latency_plot: plot, savefig, print; main ends, status 0
PlotSave ==
  /\ pc = "plot" /\ ~NoData(stats)
  /\ calls' = calls \cup {"render"}
  /\ plotted' = PlotPoints(stats[1].percentiles)
  /\ file_written' = TRUE
  /\ out' = Append(out, MsgSaved)
  /\ exit_code' = 0
  /\ pc' = "done"
  /\ UNCHANGED <<argc, content, latency_text, percentiles, stats>>

\* create_latency_plot: savefig cannot open the output path and raises,
\* caught in main
PlotSaveRaises ==
  /\ pc = "plot" /\ ~NoData(stats)
  /\ calls' = calls \cup {"render"}
  /\ plotted' = PlotPoints(stats[1].percentiles)
  /\ out' = Append(out, MsgSaveError)
  /\ exit_code' = 1
  /\ pc' = "done"
  /\ UNCHANGED <<argc, content, latency_text, percentiles, stats,
                 file_written>>

Next ==
  \/ Usage
  \/ ReadFile
  \/ ReadFileRaises
  \/ FindSection
  \/ NoSection
  \/ Percentiles
  \/ Summary
  \/ SummaryRaises
  \/ PlotNoData
  \/ PlotSave
  \/ PlotSaveRaises

Spec == Init /\ [][Next]_vars

----------------------------------------------------------------------------
\* What the properties speak of

Reported(m) == \E i \in 1..Len(out) : out[i] = m

\* The input file was read (content is its text).
WasRead == "open" \in calls /\ ~Reported(MsgReadError)

\* A "Latency distribution:" header is followed later by a "Requests/sec:".
HasSection == \E i \in 1..Len(content) : \E j \in (i + 1)..Len(content) :
                content[i] = LD /\ content[j] = RS

\* The position of the header that opens the block, and of the one that
\* closes it.
BlockOpen ==
  CHOOSE i \in 1..Len(content) :
    /\ content[i] = LD
    /\ \E j \in (i + 1)..Len(content) : content[j] = RS
    /\ \A h \in 1..(i - 1) : content[h] # LD
BlockClose ==
  CHOOSE j \in (BlockOpen + 1)..Len(content) :
    /\ content[j] = RS
    /\ \A h \in (BlockOpen + 1)..(j - 1) : content[h] # RS

\* The loop over the lines of the block has run.
PercentilesParsed == latency_text # <<>> /\ pc \in {"summary", "plot", "done"}

\* The lines of the block
BlockLines == SplitOn(latency_text[1], {NL})

\* A line with a "%" and at least two words
IsEntry(line) == Contains(line, "%") /\ Len(Words(line)) >= 2
RankWord(line) == RStrip(Words(line)[1], "%")
ValueWord(line) == Words(line)[2]

\* An entry whose rank and value are both numbers
WellFormed(line) ==
  IsEntry(line) /\ FloatOk(RankWord(line)) /\ FloatOk(ValueWord(line))

\* The last well-formed line of ls with the rank of the well-formed ls[i]
LastOfRank(ls, i) ==
  CHOOSE j \in i..Len(ls) :
    /\ WellFormed(ls[j]) /\ FloatOf(RankWord(ls[j])) = FloatOf(RankWord(ls[i]))
    /\ \A h \in (j + 1)..Len(ls) :
         ~(WellFormed(ls[h]) /\ FloatOf(RankWord(ls[h])) = FloatOf(RankWord(ls[i])))

\* a < b on floats
FloatLess(a, b) == a.num * b.den < b.num * a.den

AllIn(t, a, b, cls) == \A h \in a..b : t[h] \in cls

\* 'Total:\s+(\d+)\s+requests' lies at i, its digits at a..b
TotalAt(i, a, b) ==
  /\ content[i] = TOT /\ i + 1 < a /\ a <= b /\ b < Len(content)
  /\ AllIn(content, i + 1, a - 1, Space) /\ AllIn(content, a, b, Digit)
  /\ \E c \in (b + 2)..Len(content) :
       content[c] = REQ /\ AllIn(content, b + 1, c - 1, Space)
TotalPresent ==
  \E i \in 1..Len(content) : content[i] = TOT /\
    \E a \in (i + 2)..Len(content) : \E b \in a..Len(content) : TotalAt(i, a, b)

\* 'in\s+([\d.]+)s' lies at i, its number at a..b
DurationAt(i, a, b) ==
  /\ content[i] = INW /\ i + 1 < a /\ a <= b /\ b < Len(content)
  /\ AllIn(content, i + 1, a - 1, Space) /\ AllIn(content, a, b, NumChar)
  /\ content[b + 1] = "s"
DurationPresent ==
  \E i \in 1..Len(content) : content[i] = INW /\
    \E a \in (i + 2)..Len(content) : \E b \in a..Len(content) : DurationAt(i, a, b)

\* 'Requests/sec:\s+([\d.]+)' lies at i, the first symbol of its number at a
RpsAt(i, a) ==
  /\ content[i] = RS /\ i + 1 < a /\ a <= Len(content)
  /\ AllIn(content, i + 1, a - 1, Space) /\ content[a] \in NumChar
RpsPresent ==
  \E i \in 1..Len(content) : content[i] = RS /\
    \E a \in (i + 2)..Len(content) : RpsAt(i, a)

\* The run has ended in one of the failures.
Failed ==
  \/ Reported(MsgUsage) \/ Reported(MsgNoSection) \/ Reported(MsgNoData)
  \/ Reported(MsgReadError) \/ Reported(MsgValueError) \/ Reported(MsgSaveError)

----------------------------------------------------------------------------
\* C1: a run whose text has the latency block but gives no percentile entry
\* reports it, writes no output file and ends with exit code 1.
C1_EmptyDataExitsOne ==
  (pc = "done" /\ stats # <<>> /\ stats[1].percentiles = <<>>)
    => (Reported(MsgNoData) /\ ~file_written /\ exit_code = 1)

\* C2: a text without a latency section makes the parse fail with the
\* section-not-found report; the renderer is never entered, no output file
\* is written, and the run ends with exit code 1.
C2_NoSectionFails ==
  /\ (WasRead /\ ~HasSection) => ("render" \notin calls /\ ~file_written)
  /\ (pc = "done" /\ WasRead /\ ~HasSection)
       => (Reported(MsgNoSection) /\ stats = <<>> /\ exit_code = 1)

C2_Witness ==
  /\ pc = "done" /\ WasRead /\ ~HasSection
  /\ Contains(content, LD) /\ Contains(content, RS)

\* C3: the output image is written only after the parser has returned a
\* report with a non-empty percentiles mapping, and a run that ends in a
\* failure has written no output file.
C3_WriteOnlyAfterValidReport ==
  /\ file_written => (stats # <<>> /\ stats[1].percentiles # <<>>)
  /\ (pc = "done" /\ Failed) => ~file_written

C3_Witness ==
  pc = "done" /\ file_written /\ Len(stats[1].percentiles) >= 2

\* C4: whenever the latency block is located the parse returns a report
\* without raising, whatever else is malformed.
C4_OnlySectionNotFoundFatal ==
  (pc = "done" /\ WasRead /\ HasSection)
    => (stats # <<>> /\ ~Reported(MsgValueError))

\* C5: a percentile line whose value is not a number is skipped, and every
\* well-formed line of the block, before or after it, gives its rank an
\* entry (with its value, unless a later line of the same rank replaces it);
\* no entry comes from anything but a well-formed line.
C5_TolerantPerLine ==
  PercentilesParsed =>
    /\ \A i \in 1..Len(BlockLines) : WellFormed(BlockLines[i]) =>
         \E e \in 1..Len(percentiles) :
           /\ percentiles[e].k = FloatOf(RankWord(BlockLines[i]))
           /\ (LastOfRank(BlockLines, i) = i
                 => percentiles[e].v = FloatOf(ValueWord(BlockLines[i])))
    /\ \A e \in 1..Len(percentiles) : \E i \in 1..Len(BlockLines) :
         /\ WellFormed(BlockLines[i])
         /\ percentiles[e].k = FloatOf(RankWord(BlockLines[i]))

C5_Witness ==
  /\ PercentilesParsed
  /\ \E i \in 1..Len(BlockLines) : \E j \in (i + 1)..Len(BlockLines) :
       /\ IsEntry(BlockLines[i]) /\ ~FloatOk(ValueWord(BlockLines[i]))
       /\ WellFormed(BlockLines[j])
  /\ percentiles # <<>>

\* C6: each summary field of a returned report is 0 when its own pattern is
\* not in the text, whatever the other two patterns and the block hold, and
\* a summary whose patterns are all absent does not make the parse raise.
C6_SummaryDefaults ==
  /\ stats # <<>> =>
       /\ ~TotalPresent => stats[1].total_requests = 0
       /\ ~DurationPresent => stats[1].duration = Zero
       /\ ~RpsPresent => stats[1].requests_per_sec = Zero
  /\ (pc = "done" /\ Reported(MsgValueError)) => (DurationPresent \/ RpsPresent)
  /\ (pc \in {"plot", "done"} /\ HasSection /\ WasRead
        /\ ~DurationPresent /\ ~RpsPresent) => stats # <<>>

C6_Witness ==
  /\ stats # <<>>
  /\ ~DurationPresent /\ TotalPresent /\ RpsPresent
  /\ stats[1].duration = Zero
  /\ stats[1].total_requests # 0 /\ stats[1].requests_per_sec # Zero

\* C7: the renderer draws the percentile curve with its points in ascending
\* rank order.
C7_PlottedAscending ==
  \A i \in 1..(Len(plotted) - 1) : FloatLess(plotted[i][1], plotted[i + 1][1])

\* C8: without an input path the run prints the usage and ends with exit
\* code 1; no file is read, parser and renderer are never entered, and no
\* output file is written.
C8_MissingArgument ==
  /\ argc < 2 => (calls = {} /\ ~file_written /\ content = <<>>)
  /\ (pc = "done" /\ argc < 2) => (exit_code = 1 /\ out = <<MsgUsage>>)

C8_Witness == pc = "done" /\ argc < 2 /\ Reported(MsgUsage)

\* C9: well-formed lines of the same rank leave exactly one entry for that
\* rank, and its value is that of the last of them.
C9_LastOccurrenceWins ==
  PercentilesParsed =>
    \A i \in 1..Len(BlockLines) : WellFormed(BlockLines[i]) =>
      LET r == FloatOf(RankWord(BlockLines[i]))
          es == {e \in 1..Len(percentiles) : percentiles[e].k = r}
      IN  /\ Cardinality(es) = 1
          /\ \A e \in es :
               percentiles[e].v =
                 FloatOf(ValueWord(BlockLines[LastOfRank(BlockLines, i)]))

C9_Witness ==
  /\ PercentilesParsed
  /\ \E i \in 1..Len(BlockLines) : \E j \in (i + 1)..Len(BlockLines) :
       /\ WellFormed(BlockLines[i]) /\ WellFormed(BlockLines[j])
       /\ FloatOf(RankWord(BlockLines[i])) = FloatOf(RankWord(BlockLines[j]))
       /\ FloatOf(ValueWord(BlockLines[i])) # FloatOf(ValueWord(BlockLines[j]))
       /\ LastOfRank(BlockLines, i) = j

\* C10: the percentile entries come only from lines between the header that
\* opens the block and the header that closes it, and the three summary
\* fields are found wherever in the text their patterns lie.
C10_TwoPasses ==
  /\ PercentilesParsed =>
       LET ls == SplitOn(SubSeq(content, BlockOpen + 1, BlockClose - 1), {NL})
       IN  \A e \in 1..Len(percentiles) : \E i \in 1..Len(ls) :
             /\ WellFormed(ls[i])
             /\ percentiles[e].k = FloatOf(RankWord(ls[i]))
             /\ percentiles[e].v = FloatOf(ValueWord(ls[i]))
  /\ stats # <<>> =>
       /\ TotalPresent =>
            \E i \in 1..Len(content) : \E a \in (i + 2)..Len(content) :
              \E b \in a..Len(content) :
                /\ TotalAt(i, a, b)
                /\ stats[1].total_requests = IntOf(SubSeq(content, a, b))
       /\ DurationPresent =>
            \E i \in 1..Len(content) : \E a \in (i + 2)..Len(content) :
              \E b \in a..Len(content) :
                /\ DurationAt(i, a, b)
                /\ FloatOk(SubSeq(content, a, b))
                /\ stats[1].duration = FloatOf(SubSeq(content, a, b))
       /\ RpsPresent =>
            \E i \in 1..Len(content) : \E a \in (i + 2)..Len(content) :
              \E b \in a..Len(content) :
                /\ RpsAt(i, a) /\ AllIn(content, a, b, NumChar)
                /\ (b = Len(content) \/ content[b + 1] \notin NumChar)
                /\ FloatOk(SubSeq(content, a, b))
                /\ stats[1].requests_per_sec = FloatOf(SubSeq(content, a, b))

C10_Witness ==
  /\ stats # <<>> /\ PercentilesParsed
  /\ \E h \in 1..(BlockOpen - 1) : content[h] = "%"
  /\ \E h \in (BlockClose + 1)..Len(content) : content[h] = TOT
  /\ stats[1].total_requests = 7
  /\ percentiles = <<>>

====
